---------------------------- MODULE Spec2Model ----------------------------
(***************************************************************************)
(* Model of the sales report generator of src/app.py: one run of the       *)
(* script body for an uploaded CSV file.  The run is a pipeline over the   *)
(* data frame df: filter the channel reference, classify the table number, *)
(* derive the sub category, group and sum, sort, build the banded table    *)
(* with subtotals, collapse repeated labels, append the grand total and    *)
(* choose a cell format for every row of the exported sheet.               *)
(*                                                                         *)
(* Text values are sequences of one-character strings so that lower(),     *)
(* startswith(), "in", strip(), concatenation and the code point ordering  *)
(* used by the sorts are computed rather than assumed.  A missing cell of  *)
(* the CSV (pandas NaN) is the value NaN.  The five measures are integers  *)
(* (amounts in the smallest currency unit): sums are exact, floating point *)
(* rounding is not modelled.                                               *)
(***************************************************************************)
EXTENDS Integers, Sequences, FiniteSets, TLC

VARIABLES pc, df, grouped, final, formats

vars == <<pc, df, grouped, final, formats>>

----------------------------------------------------------------------------
(* Bounds of the model *)

\* largest number of data rows of an uploaded file
MaxRecords == 3

----------------------------------------------------------------------------
(* Text: Python str as a sequence of characters *)

NaN == <<"<NaN>">>

EmptyStr == <<>>

UpperCase == <<"A","B","C","D","E","F","G","H","I","J","K","L","M",
               "N","O","P","Q","R","S","T","U","V","W","X","Y","Z">>

LowerCase == <<"a","b","c","d","e","f","g","h","i","j","k","l","m",
               "n","o","p","q","r","s","t","u","v","w","x","y","z">>

Digits == <<"0","1","2","3","4","5","6","7","8","9">>

IndexIn(c, seq) == CHOOSE i \in 1..Len(seq) : seq[i] = c

IsIn(c, seq) == \E i \in 1..Len(seq) : seq[i] = c

\* ord(c) for the characters that occur in the model
CodePoint(c) ==
  IF c = " " THEN 32
  ELSE IF c = "-" THEN 45
  ELSE IF IsIn(c, Digits) THEN 47 + IndexIn(c, Digits)
  ELSE IF IsIn(c, UpperCase) THEN 64 + IndexIn(c, UpperCase)
  ELSE 96 + IndexIn(c, LowerCase)

\* str.lower()
Lower(s) ==
  [i \in 1..Len(s) |->
     IF IsIn(s[i], UpperCase) THEN LowerCase[IndexIn(s[i], UpperCase)] ELSE s[i]]

\* sub in s
Contains(s, sub) ==
  \E i \in 0..(Len(s) - Len(sub)) : SubSeq(s, i + 1, i + Len(sub)) = sub

\* s.startswith(p)
StartsWith(s, p) == Len(s) >= Len(p) /\ SubSeq(s, 1, Len(p)) = p

\* s.strip()
Strip(s) ==
  LET NonBlank == {i \in 1..Len(s) : s[i] # " "}
  IN  IF NonBlank = {} THEN EmptyStr
      ELSE LET lo == CHOOSE i \in NonBlank : \A j \in NonBlank : i <= j
               hi == CHOOSE i \in NonBlank : \A j \in NonBlank : i >= j
           IN  SubSeq(s, lo, hi)

\* a < b for two str values: lexicographic on code points
StrLess(a, b) ==
  \E k \in 1..(Len(b)) :
     /\ k <= Len(a) + 1
     /\ \A j \in 1..(k - 1) : a[j] = b[j]
     /\ (k = Len(a) + 1 \/ CodePoint(a[k]) < CodePoint(b[k]))

\* astype(str): a missing value becomes the text 'nan'
AsStr(v) == IF v = NaN THEN <<"n","a","n">> ELSE v

s_swiggy == <<"s","w","i","g","g","y">>

s_zomato == <<"z","o","m","a","t","o">>

s_sw == <<"s","w">>

s_sr == <<"s","r">>

s_Total == <<"T","o","t","a","l">>

s_SpaceTotal == <<" ","T","o","t","a","l">>

s_GrandTotal == <<"G","r","a","n","d"," ","T","o","t","a","l">>

s_CounterSweetSales ==
  <<"C","o","u","n","t","e","r"," ","S","w","e","e","t"," ","S","a","l","e","s">>

s_ScrapSales == <<"S","c","r","a","p"," ","S","a","l","e","s">>

s_DineIn == <<"D","i","n","e","-","I","n">>

s_TakeAway == <<"T","a","k","e","-","A","w","a","y">>

s_Delivery == <<"D","e","l","i","v","e","r","y">>

----------------------------------------------------------------------------
(* Uploaded files: the rows read_csv can deliver *)

s_Parcel == <<"P","a","r","c","e","l">>

s_Food == <<"F","o","o","d">>

s_Drinks == <<"D","r","i","n","k","s">>

s_Swiggy == <<"S","w","i","g","g","y">>

s_SwiggyTotal == <<"S","w","i","g","g","y"," ","T","o","t","a","l">>

s_ZOMATO == <<"Z","O","M","A","T","O">>

s_T5 == <<"T","5">>

s_SW1 == <<"S","W","1">>

s_sr2 == <<"s","r","2">>

RawRow(ref, table, otype, main, ad, cgst, sgst, dc, tp) ==
  [OnlineReferenceName |-> ref, TableNo |-> table, OrderType |-> otype,
   MainCategory |-> main, AfterDiscount |-> ad, CGST |-> cgst, SGST |-> sgst,
   DeliveryCharge |-> dc, TotalPrice |-> tp]

CsvRows ==
  { RawRow(s_DineIn,      s_T5,  s_DineIn,   s_Food,   100, 5, 5, 0, 110),
    RawRow(NaN,           s_T5,  s_DineIn,   s_Food,   0, 0, 0, 0, 0),
    RawRow(NaN,           s_T5,  s_DineIn,   s_Drinks, 40, 2, 2, 0, 44),
    RawRow(NaN,           s_SW1, s_DineIn,   s_Food,   50, 3, 3, 0, 56),
    RawRow(s_ZOMATO,      s_sr2, s_TakeAway, s_Food,   200, 10, 10, 30, 250),
    RawRow(s_Swiggy,      s_T5,  s_Delivery, s_Food,   60, 3, 3, 20, 86),
    RawRow(s_SwiggyTotal, NaN,   s_Delivery, s_Drinks, 20, 1, 1, 10, 32),
    RawRow(NaN,           s_SW1, s_Parcel,   s_Food,   70, 4, 4, 0, 78),
    RawRow(NaN,           s_T5,  s_DineIn,   NaN,      30, 2, 2, 0, 34) }

CsvFiles == UNION {[1..n -> CsvRows] : n \in 0..MaxRecords}

\* the rows of the files whose records are shuffled: two records of one
\* group, two main categories of one sub category, two sub categories of one
\* order type, two order types of the list and one outside it
ShuffleRows ==
  { RawRow(s_DineIn,      s_T5,  s_DineIn,   s_Food,   100, 5, 5, 0, 110),
    RawRow(NaN,           s_T5,  s_DineIn,   s_Food,   0, 0, 0, 0, 0),
    RawRow(NaN,           s_T5,  s_DineIn,   s_Drinks, 40, 2, 2, 0, 44),
    RawRow(NaN,           s_SW1, s_DineIn,   s_Food,   50, 3, 3, 0, 56),
    RawRow(s_ZOMATO,      s_sr2, s_TakeAway, s_Food,   200, 10, 10, 30, 250),
    RawRow(NaN,           s_SW1, s_Parcel,   s_Food,   70, 4, 4, 0, 78) }

ShuffleFiles == UNION {[1..n -> ShuffleRows] : n \in 0..MaxRecords}

----------------------------------------------------------------------------
(* Field classification and key derivation *)

\* the filter left out: every channel reference is kept
classify_channel_Unfiltered(x) == x

\* lambda of the 'Online Reference Name' filter
classify_channel(x) ==
  IF Contains(Lower(x), s_swiggy) \/ Contains(Lower(x), s_zomato) THEN x ELSE EmptyStr

\* lambda of the 'Table No' classification, applied to the lower-cased text
classify_location(x) ==
  IF StartsWith(x, s_sw) THEN s_CounterSweetSales
  ELSE IF StartsWith(x, s_sr) THEN s_ScrapSales
  ELSE EmptyStr

\* lambda of the 'Sub Category' derivation
derive_sub_category(row) ==
  IF row.OnlineReferenceName # EmptyStr
  THEN Strip(row.TableNo \o <<" ">> \o row.OnlineReferenceName)
  ELSE row.TableNo

----------------------------------------------------------------------------

Init ==
  /\ pc = "waiting"
  /\ df = <<>>
  /\ grouped = <<>>
  /\ final = <<>>
  /\ formats = <<>>

\* df = pd.read_csv(uploaded_file, skiprows=5).iloc[:-1]
ReadCsv ==
  /\ pc = "waiting"
  /\ \E file \in CsvFiles : df' = file
  /\ pc' = "loaded"
  /\ UNCHANGED <<grouped, final, formats>>

\* read_csv of one of the files whose records are shuffled
ReadShuffleCsv ==
  /\ pc = "waiting"
  /\ \E file \in ShuffleFiles : df' = file
  /\ pc' = "loaded"
  /\ UNCHANGED <<grouped, final, formats>>

FilterOnlineReferenceName ==
  /\ pc = "loaded"
  /\ df' = [i \in 1..Len(df) |->
              [df[i] EXCEPT !.OnlineReferenceName =
                 classify_channel(AsStr(df[i].OnlineReferenceName))]]
  /\ pc' = "filtered"
  /\ UNCHANGED <<grouped, final, formats>>

ClassifyTableNo ==
  /\ pc = "filtered"
  /\ df' = [i \in 1..Len(df) |->
              [df[i] EXCEPT !.TableNo = classify_location(Lower(AsStr(df[i].TableNo)))]]
  /\ pc' = "classified"
  /\ UNCHANGED <<grouped, final, formats>>

CreateSubCategory ==
  /\ pc = "classified"
  /\ df' = [i \in 1..Len(df) |->
              [f \in DOMAIN df[i] \cup {"SubCategory"} |->
                 IF f = "SubCategory" THEN derive_sub_category(df[i]) ELSE df[i][f]]]
  /\ pc' = "keyed"
  /\ UNCHANGED <<grouped, final, formats>>

----------------------------------------------------------------------------
(* Aggregation *)

Measures == <<"AfterDiscount", "CGST", "SGST", "DeliveryCharge", "TotalPrice">>

RECURSIVE SeqSum(_)
SeqSum(values) ==
  IF values = <<>> THEN 0 ELSE values[1] + SeqSum(Tail(values))

\* 'first' in place of 'sum': the value of the first row of the group
agg_first(values) == values[1]

\* the 'sum' aggregation of one measure over the rows of one group
agg_sum(values) == SeqSum(values)

Column(frame, f) == [i \in 1..Len(frame) |-> frame[i][f]]

Key(row) == <<row.OrderType, row.SubCategory, row.MainCategory>>

\* lexicographic order of the key tuples, as groupby(sort=True) orders them
KeyLess(a, b) ==
  \/ StrLess(a[1], b[1])
  \/ a[1] = b[1] /\ StrLess(a[2], b[2])
  \/ a[1] = b[1] /\ a[2] = b[2] /\ StrLess(a[3], b[3])

RECURSIVE SortKeys(_)
SortKeys(keys) ==
  IF keys = {} THEN <<>>
  ELSE LET m == CHOOSE k \in keys : \A o \in keys \ {k} : KeyLess(k, o)
       IN  <<m>> \o SortKeys(keys \ {m})

\* rows whose key has a missing component take part in no group (dropna=True)
HasKey(row) == NaN \notin {row.OrderType, row.SubCategory, row.MainCategory}

\* df.groupby([...]).agg({... 'sum'}).reset_index()
GroupBy(frame) ==
  LET valid == SelectSeq(frame, HasKey)
      keys == SortKeys({Key(valid[i]) : i \in 1..Len(valid)})
      Group(k) == LET InGroup(row) == Key(row) = k IN SelectSeq(valid, InGroup)
  IN  [g \in 1..Len(keys) |->
         [OrderType |-> keys[g][1], SubCategory |-> keys[g][2],
          MainCategory |-> keys[g][3],
          AfterDiscount |-> agg_sum(Column(Group(keys[g]), "AfterDiscount")),
          CGST |-> agg_sum(Column(Group(keys[g]), "CGST")),
          SGST |-> agg_sum(Column(Group(keys[g]), "SGST")),
          DeliveryCharge |-> agg_sum(Column(Group(keys[g]), "DeliveryCharge")),
          TotalPrice |-> agg_sum(Column(Group(keys[g]), "TotalPrice"))]]

GroupAndAggregate ==
  /\ pc = "keyed"
  /\ grouped' = GroupBy(df)
  /\ pc' = "grouped"
  /\ UNCHANGED <<df, final, formats>>

----------------------------------------------------------------------------
(* Ordering of the aggregate rows *)

\* the order types listed alphabetically
order_type_order_Alphabetical == <<s_Delivery, s_DineIn, s_TakeAway>>

order_type_order == <<s_DineIn, s_TakeAway, s_Delivery>>

\* pd.Categorical(..., categories=order_type_order): other values become NaN
AsCategorical(frame) ==
  [i \in 1..Len(frame) |->
     [frame[i] EXCEPT !.OrderType =
        IF IsIn(frame[i].OrderType, order_type_order) THEN frame[i].OrderType ELSE NaN]]

\* position of a category; NaN sorts last
CategoryRank(t) ==
  IF t = NaN THEN Len(order_type_order) + 1 ELSE IndexIn(t, order_type_order)

SortLess(a, b) ==
  \/ CategoryRank(a.OrderType) < CategoryRank(b.OrderType)
  \/ /\ CategoryRank(a.OrderType) = CategoryRank(b.OrderType)
     /\ \/ StrLess(a.SubCategory, b.SubCategory)
        \/ a.SubCategory = b.SubCategory /\ StrLess(a.MainCategory, b.MainCategory)

RemoveAt(seq, i) == SubSeq(seq, 1, i - 1) \o SubSeq(seq, i + 1, Len(seq))

\* sort_values(by=['Order Type', 'Sub Category', 'Main Category']): the
\* multi-column sort is stable, rows with equal sort keys keep their order
RECURSIVE SortValues(_)
SortValues(frame) ==
  IF frame = <<>> THEN <<>>
  ELSE LET Minimal(i) == \A j \in 1..Len(frame) : ~SortLess(frame[j], frame[i])
           m == CHOOSE i \in 1..Len(frame) :
                  Minimal(i) /\ \A j \in 1..(i - 1) : ~Minimal(j)
       IN  <<frame[m]>> \o SortValues(RemoveAt(frame, m))

SortGrouped ==
  /\ pc = "grouped"
  /\ grouped' = SortValues(AsCategorical(grouped))
  /\ pc' = "sorted"
  /\ UNCHANGED <<df, final, formats>>

----------------------------------------------------------------------------
(* build_final_table *)

\* Every report row carries three tags the code does not store: kind (the
\* role of the row), of_type and of_sub (the order type and sub category
\* whose loop iteration appended it).  No operation of the program reads
\* them; the properties use them to name rows after labels were blanked.

\* Series.unique(): distinct values in order of first appearance
Unique(col) ==
  LET First(i) == \A j \in 1..(i - 1) : col[j] # col[i]
      IsFirst(i) == First(i)
      idx == {i \in 1..Len(col) : IsFirst(i)}
      RECURSIVE Pick(_)
      Pick(S) == IF S = {} THEN <<>>
                 ELSE LET m == CHOOSE i \in S : \A j \in S : i <= j
                      IN  <<col[m]>> \o Pick(S \ {m})
  IN  Pick(idx)

\* select_dtypes(include='number').sum() of one measure of a frame
NumberSum(frame, f) == SeqSum(Column(frame, f))

WithOrderType(frame, order_type) ==
  LET Test(row) == row.OrderType = order_type IN SelectSeq(frame, Test)

WithSubCategory(frame, sub_cat) ==
  LET Test(row) == row.SubCategory = sub_cat IN SelectSeq(frame, Test)

\* the rows appended for the leaves of one sub category
LeafRows(sdf, order_type, sub_cat, order_type_written) ==
  [i \in 1..Len(sdf) |->
     [OrderType |-> IF ~order_type_written /\ i = 1 THEN order_type ELSE EmptyStr,
      SubCategory |-> sub_cat,
      MainCategory |-> sdf[i].MainCategory,
      AfterDiscount |-> sdf[i].AfterDiscount,
      CGST |-> sdf[i].CGST,
      SGST |-> sdf[i].SGST,
      DeliveryCharge |-> sdf[i].DeliveryCharge,
      TotalPrice |-> sdf[i].TotalPrice,
      kind |-> "leaf", of_type |-> order_type, of_sub |-> sub_cat]]

\* the sub category total summed over odf in place of sdf
SubtotalFrame_WholeType(odf, sub_cat) == odf

\* the frame whose numeric columns make the sub category total
SubtotalFrame(odf, sub_cat) == WithSubCategory(odf, sub_cat)

SubtotalRow(odf, order_type, sub_cat) ==
  LET sdf == SubtotalFrame(odf, sub_cat)
  IN  [OrderType |-> EmptyStr,
       SubCategory |-> sub_cat \o s_SpaceTotal,
       MainCategory |-> EmptyStr,
       AfterDiscount |-> NumberSum(sdf, "AfterDiscount"),
       CGST |-> NumberSum(sdf, "CGST"),
       SGST |-> NumberSum(sdf, "SGST"),
       DeliveryCharge |-> NumberSum(sdf, "DeliveryCharge"),
       TotalPrice |-> NumberSum(sdf, "TotalPrice"),
       kind |-> "sub_category_total", of_type |-> order_type, of_sub |-> sub_cat]

\* the order type total summed over df in place of odf
OrderTotalFrame_WholeFrame(frame, order_type) == frame

\* the frame whose numeric columns make the order type total
OrderTotalFrame(frame, order_type) == WithOrderType(frame, order_type)

OrderTotalRow(frame, order_type) ==
  LET odf == OrderTotalFrame(frame, order_type)
  IN  [OrderType |-> order_type,
       SubCategory |-> Strip(order_type) \o s_SpaceTotal,
       MainCategory |-> EmptyStr,
       AfterDiscount |-> NumberSum(odf, "AfterDiscount"),
       CGST |-> NumberSum(odf, "CGST"),
       SGST |-> NumberSum(odf, "SGST"),
       DeliveryCharge |-> NumberSum(odf, "DeliveryCharge"),
       TotalPrice |-> NumberSum(odf, "TotalPrice"),
       kind |-> "primary_type_total", of_type |-> order_type, of_sub |-> EmptyStr]

\* the empty line after the Take-Away section
BlankRow(order_type) ==
  [OrderType |-> EmptyStr, SubCategory |-> EmptyStr, MainCategory |-> EmptyStr,
   AfterDiscount |-> EmptyStr, CGST |-> EmptyStr, SGST |-> EmptyStr,
   DeliveryCharge |-> EmptyStr, TotalPrice |-> EmptyStr,
   kind |-> "blank_separator", of_type |-> order_type, of_sub |-> EmptyStr]

\* body of "for sub_cat in odf['Sub Category'].unique()", from the k-th on
RECURSIVE SubCategoryLoop(_, _, _, _)
SubCategoryLoop(odf, order_type, sub_cats, k) ==
  IF k > Len(sub_cats) THEN <<>>
  ELSE LeafRows(WithSubCategory(odf, sub_cats[k]), order_type, sub_cats[k], k > 1)
       \o <<SubtotalRow(odf, order_type, sub_cats[k])>>
       \o SubCategoryLoop(odf, order_type, sub_cats, k + 1)

\* body of "for order_type in order_type_order", from the n-th on
RECURSIVE OrderTypeLoop(_, _)
OrderTypeLoop(frame, n) ==
  IF n > Len(order_type_order) THEN <<>>
  ELSE LET order_type == order_type_order[n]
           odf == WithOrderType(frame, order_type)
       IN  (IF ~IsIn(order_type, Column(frame, "OrderType")) THEN <<>>
            ELSE SubCategoryLoop(odf, order_type, Unique(Column(odf, "SubCategory")), 1)
                 \o <<OrderTotalRow(frame, order_type)>>
                 \o (IF order_type = s_TakeAway THEN <<BlankRow(order_type)>> ELSE <<>>))
           \o OrderTypeLoop(frame, n + 1)

\* mask() in place of where(): blank the value where the test holds
Where_Inverted(test, value) == IF test THEN EmptyStr ELSE value

\* col.where(col != col.shift(), ''): keep the value where the test holds
Where(test, value) == IF test THEN value ELSE EmptyStr

\* "Remove repeated values" for the columns 'Order Type' and 'Sub Category'
Collapse(rows) ==
  [i \in 1..Len(rows) |->
     [rows[i] EXCEPT
        !.OrderType = Where(i = 1 \/ rows[i].OrderType # rows[i - 1].OrderType, @),
        !.SubCategory = Where(i = 1 \/ rows[i].SubCategory # rows[i - 1].SubCategory, @)]]

build_final_table(frame) == Collapse(OrderTypeLoop(frame, 1))

\* pd.DataFrame([]) has no columns: final_df['Order Type'] raises KeyError,
\* caught by the handler at the end of the script, and no report is shown
BuildFinalTable ==
  /\ pc = "sorted"
  /\ IF OrderTypeLoop(grouped, 1) = <<>>
     THEN pc' = "error" /\ final' = final
     ELSE pc' = "built" /\ final' = build_final_table(grouped)
  /\ UNCHANGED <<df, grouped, formats>>

----------------------------------------------------------------------------
(* Grand total *)

totals_to_include ==
  {s_Delivery \o s_SpaceTotal, s_DineIn \o s_SpaceTotal, s_TakeAway \o s_SpaceTotal}

\* every row whose 'Sub Category' contains 'Total' taken into the grand total
GrandRows_AnyTotal(rows) ==
  LET Test(row) == Contains(row.SubCategory, s_Total) IN SelectSeq(rows, Test)

\* final[final['Sub Category'].isin(totals_to_include)]
GrandRows(rows) ==
  LET Test(row) == row.SubCategory \in totals_to_include IN SelectSeq(rows, Test)

GrandTotalRow(rows) ==
  LET grand_rows == GrandRows(rows)
  IN  [OrderType |-> s_GrandTotal, SubCategory |-> EmptyStr, MainCategory |-> EmptyStr,
       AfterDiscount |-> NumberSum(grand_rows, "AfterDiscount"),
       CGST |-> NumberSum(grand_rows, "CGST"),
       SGST |-> NumberSum(grand_rows, "SGST"),
       DeliveryCharge |-> NumberSum(grand_rows, "DeliveryCharge"),
       TotalPrice |-> NumberSum(grand_rows, "TotalPrice"),
       kind |-> "grand_total", of_type |-> EmptyStr, of_sub |-> EmptyStr]

AddGrandTotal ==
  /\ pc = "built"
  /\ final' = Append(final, GrandTotalRow(final))
  /\ pc' = "totalled"
  /\ UNCHANGED <<df, grouped, formats>>

----------------------------------------------------------------------------
(* Export: the format of each data row of the sheet *)

cell_format(row) ==
  IF Contains(row.OrderType, s_GrandTotal) THEN "grand_total_format"
  ELSE IF Contains(row.SubCategory, s_Total) THEN "total_format"
  ELSE "normal_format"

WriteExcel ==
  /\ pc = "totalled"
  /\ formats' = [i \in 1..Len(final) |-> cell_format(final[i])]
  /\ pc' = "done"
  /\ UNCHANGED <<df, grouped, final>>

\* the file is removed from the uploader: the script reruns with
\* uploaded_file None and only asks for a file
ClearUpload ==
  /\ pc \in {"done", "error"}
  /\ pc' = "waiting"
  /\ df' = <<>>
  /\ grouped' = <<>>
  /\ final' = <<>>
  /\ formats' = <<>>

Next ==
  \/ ReadCsv
  \/ ClearUpload
  \/ FilterOnlineReferenceName
  \/ ClassifyTableNo
  \/ CreateSubCategory
  \/ GroupAndAggregate
  \/ SortGrouped
  \/ BuildFinalTable
  \/ AddGrandTotal
  \/ WriteExcel

Spec == Init /\ [][Next]_vars

NextShuffle ==
  \/ ReadShuffleCsv
  \/ ClearUpload
  \/ FilterOnlineReferenceName
  \/ ClassifyTableNo
  \/ CreateSubCategory
  \/ GroupAndAggregate
  \/ SortGrouped
  \/ BuildFinalTable
  \/ AddGrandTotal
  \/ WriteExcel

\* the runs over the files whose records are shuffled
SpecShuffle == Init /\ [][NextShuffle]_vars

----------------------------------------------------------------------------
(* Vocabulary of the properties *)

\* build_final_table has returned a table
ReportBuilt == pc \in {"built", "totalled", "done"}

\* the grand total row has been appended
GrandAdded == pc \in {"totalled", "done"}

\* the classified records are complete (the 'Sub Category' column exists)
Keyed == pc \in {"keyed", "grouped", "sorted", "built", "totalled", "done", "error"}

RowsAt(I) == {final[i] : i \in I}

Positions(k) == {i \in 1..Len(final) : final[i].kind = k}

LeavesOf(t) == {i \in Positions("leaf") : final[i].of_type = t}

SubtotalsOf(t) == {i \in Positions("sub_category_total") : final[i].of_type = t}

TypeTotalsOf(t) == {i \in Positions("primary_type_total") : final[i].of_type = t}

RECURSIVE SumAt(_, _, _)
SumAt(rows, I, f) ==
  IF I = {} THEN 0
  ELSE LET i == CHOOSE j \in I : TRUE IN rows[i][f] + SumAt(rows, I \ {i}, f)

\* the five sums of the rows of the report at the positions I
TupleSum(I) == [m \in 1..Len(Measures) |-> SumAt(final, I, Measures[m])]

TupleOf(row) == [m \in 1..Len(Measures) |-> row[Measures[m]]]

ZeroTuple == [m \in 1..Len(Measures) |-> 0]

AllowList == {s_DineIn, s_TakeAway, s_Delivery}

\* order types for which the report has rows
TypesEmitted == {final[i].of_type : i \in Positions("leaf")}

----------------------------------------------------------------------------
(* C1 *)

\* C1: the numeric tuple of the single Grand Total row is the sum of the
\* tuples of exactly the primary_type_total rows of the report, and so the
\* sum of all leaf rows counted once; no sub_category_total row, leaf row or
\* separator is counted in addition.
C1_GrandTotalIsSumOfTypeTotals ==
  GrandAdded =>
    /\ Positions("grand_total") = {Len(final)}
    /\ TupleOf(final[Len(final)]) = TupleSum(Positions("primary_type_total"))
    /\ TupleOf(final[Len(final)]) = TupleSum(Positions("leaf"))

\* a report with two order types, three sub category totals and money in it
C1_Witness ==
  /\ pc = "totalled"
  /\ Cardinality(Positions("primary_type_total")) >= 2
  /\ Cardinality(Positions("sub_category_total")) >= 3
  /\ final[Len(final)].TotalPrice > 0
  /\ TupleSum(Positions("sub_category_total")) = TupleOf(final[Len(final)])

----------------------------------------------------------------------------
(* C2 *)

\* C2: for every order type in the table, the tuple of its primary_type_total
\* row equals the sum of the tuples of its sub_category_total rows, which
\* equals the sum of the tuples of its leaf rows.
C2_TypeTotalIsSumOfSubtotals ==
  ReportBuilt =>
    \A t \in TypesEmitted :
      /\ Cardinality(TypeTotalsOf(t)) = 1
      /\ \A i \in TypeTotalsOf(t) :
            /\ TupleOf(final[i]) = TupleSum(SubtotalsOf(t))
            /\ TupleOf(final[i]) = TupleSum(LeavesOf(t))
      /\ TupleSum(SubtotalsOf(t)) = TupleSum(LeavesOf(t))

\* an order type with two sub categories next to another order type
C2_Witness ==
  /\ pc = "built"
  /\ Cardinality(TypesEmitted) >= 2
  /\ \E t \in TypesEmitted :
        /\ Cardinality(SubtotalsOf(t)) >= 2
        /\ \A i \in SubtotalsOf(t) : final[i].TotalPrice > 0

----------------------------------------------------------------------------
(* C3 *)

\* the (order type, sub category) pairs of the aggregate rows the table is
\* built from; rows of other order types have no category after line 76
PairsOfGrouped ==
  {<<grouped[g].OrderType, grouped[g].SubCategory>> :
      g \in {h \in 1..Len(grouped) : grouped[h].OrderType # NaN}}

LeavesOfPair(pair) ==
  {i \in Positions("leaf") : final[i].of_type = pair[1] /\ final[i].of_sub = pair[2]}

GroupedOfPair(pair) ==
  LET Test(row) == row.OrderType = pair[1] /\ row.SubCategory = pair[2]
  IN  SelectSeq(grouped, Test)

MinOf(I) == CHOOSE i \in I : \A j \in I : i <= j

MaxOf(I) == CHOOSE i \in I : \A j \in I : i >= j

\* C3: for every (order type, sub category) pair of the aggregate rows, the
\* leaf rows of the pair are the aggregate rows of the pair, they are
\* contiguous, and the row right after them is the only sub_category_total
\* row of the pair, labelled "{sub_category} Total", whose tuple is the sum
\* of exactly these leaf rows; also when there is one leaf row only.
C3_SubtotalFollowsItsLeaves ==
  ReportBuilt =>
    \A pair \in PairsOfGrouped :
      LET L == LeavesOfPair(pair)
          G == GroupedOfPair(pair)
      IN  /\ L # {}
          /\ L = MinOf(L)..MaxOf(L)
          /\ Cardinality(L) = Len(G)
          /\ \A k \in 1..Len(G) :
                /\ final[MinOf(L) + k - 1].MainCategory = G[k].MainCategory
                /\ TupleOf(final[MinOf(L) + k - 1]) = TupleOf(G[k])
          /\ MaxOf(L) + 1 <= Len(final)
          /\ final[MaxOf(L) + 1].kind = "sub_category_total"
          /\ final[MaxOf(L) + 1].SubCategory = pair[2] \o s_SpaceTotal
          /\ TupleOf(final[MaxOf(L) + 1]) = TupleSum(L)
          /\ {i \in Positions("sub_category_total") :
                final[i].of_type = pair[1] /\ final[i].of_sub = pair[2]} = {MaxOf(L) + 1}

\* one order type with a sub category of one leaf and one of two leaves
C3_Witness ==
  /\ pc = "built"
  /\ \E p \in PairsOfGrouped, q \in PairsOfGrouped :
        /\ p[1] = q[1]
        /\ Cardinality(LeavesOfPair(p)) = 1
        /\ Cardinality(LeavesOfPair(q)) = 2
        /\ \A i \in LeavesOfPair(p) \cup LeavesOfPair(q) : final[i].TotalPrice > 0

----------------------------------------------------------------------------
(* C4 *)

PriorityOf(t) ==
  IF t = s_DineIn THEN 1 ELSE IF t = s_TakeAway THEN 2 ELSE IF t = s_Delivery THEN 3 ELSE 4

\* order types of the records that take part in the aggregation
TypesAggregated == {df[i].OrderType : i \in {j \in 1..Len(df) : HasKey(df[j])}}

RecordsAllowed == {i \in 1..Len(df) : HasKey(df[i]) /\ df[i].OrderType \in AllowList}

\* C4: the order types with rows in the report are the allow-listed types of
\* the aggregated data, their groups stand in the order Dine-In, Take-Away,
\* Delivery whatever the order of the input; records of any other type make
\* no row and are in no total; the leaf rows of a group are ordered by sub
\* category and then by main category.
C4_GroupsInPriorityOrder ==
  ReportBuilt =>
    /\ TypesEmitted = TypesAggregated \cap AllowList
    /\ \A i \in 1..Len(final) :
          final[i].kind # "grand_total" => final[i].of_type \in TypesEmitted
    /\ \A i \in 1..Len(final), j \in 1..Len(final) :
          (i < j /\ final[j].kind # "grand_total")
             => PriorityOf(final[i].of_type) <= PriorityOf(final[j].of_type)
    /\ \A t \in TypesEmitted :
          TupleSum(LeavesOf(t)) =
             [m \in 1..Len(Measures) |->
                SumAt(df, {r \in RecordsAllowed : df[r].OrderType = t}, Measures[m])]
    /\ GrandAdded =>
          TupleOf(final[Len(final)]) =
             [m \in 1..Len(Measures) |-> SumAt(df, RecordsAllowed, Measures[m])]
    /\ \A t \in TypesEmitted : \A i \in LeavesOf(t), j \in LeavesOf(t) :
          i < j => \/ StrLess(final[i].of_sub, final[j].of_sub)
                   \/ /\ final[i].of_sub = final[j].of_sub
                      /\ StrLess(final[i].MainCategory, final[j].MainCategory)

\* a file that lists a Delivery record before a Dine-In record and holds a
\* record of another order type, and a group with two sub categories
C4_Witness ==
  /\ pc = "done"
  /\ \E i \in 1..Len(df), j \in 1..Len(df) :
        i < j /\ df[i].OrderType = s_Delivery /\ df[j].OrderType = s_DineIn
           /\ HasKey(df[j])
  /\ \E i \in 1..Len(df) : df[i].OrderType = s_Parcel /\ df[i].TotalPrice > 0
  /\ Cardinality(TypesEmitted) = 2

----------------------------------------------------------------------------
(* C5 *)

\* the key of a classified record, whatever its field values
KeysOfRecords == {Key(df[i]) : i \in 1..Len(df)}

RecordsWithKey(k) == {i \in 1..Len(df) : Key(df[i]) = k}

\* C5: the aggregation emits exactly one aggregate row for every distinct key
\* (order type, sub category, main category) of the classified records,
\* whatever the field values, with the five sums of exactly the records of
\* that key; a group whose sums are all zero is emitted too.
C5_OneAggregateRowPerKey ==
  pc = "grouped" =>
    /\ \A k \in KeysOfRecords :
          \E g \in 1..Len(grouped) :
             /\ Key(grouped[g]) = k
             /\ TupleOf(grouped[g]) =
                   [m \in 1..Len(Measures) |-> SumAt(df, RecordsWithKey(k), Measures[m])]
    /\ \A g \in 1..Len(grouped), h \in 1..Len(grouped) :
          Key(grouped[g]) = Key(grouped[h]) => g = h
    /\ \A g \in 1..Len(grouped) : Key(grouped[g]) \in KeysOfRecords

----------------------------------------------------------------------------
(* C6 *)

\* C6: a file with zero records does not abort the run: the report has no
\* leaf, subtotal or order type total row, only the grand total row, and its
\* five measures are zero.
C6_EmptyInputYieldsZeroGrandTotal ==
  (Keyed /\ df = <<>>) =>
    /\ pc # "error"
    /\ GrandAdded =>
          /\ Len(final) = 1
          /\ final[1].kind = "grand_total"
          /\ TupleOf(final[1]) = ZeroTuple

----------------------------------------------------------------------------
(* C7 *)

\* the format the claim gives a row of each kind, in the formats of the sheet
FormatOfKind(k) ==
  IF k = "grand_total" THEN "grand_total_format"
  ELSE IF k \in {"sub_category_total", "primary_type_total"} THEN "total_format"
  ELSE "normal_format"

\* C7: the format of every exported row is a function of the kind of the row
\* and not of its label text: a leaf row has the normal format, the total
\* rows a total format, the grand total row the grand total format; a leaf
\* row whose sub category label contains "Total" has the normal format too.
C7_StyleFollowsKind ==
  pc = "done" =>
    \A i \in 1..Len(final) :
       final[i].kind # "blank_separator" => formats[i] = FormatOfKind(final[i].kind)

----------------------------------------------------------------------------
(* C8 *)

\* C8: collapsing an already collapsed table changes nothing: the table
\* build_final_table returns is a fixed point of the collapsing pass.
C8_CollapseIdempotent ==
  pc = "built" => Collapse(final) = final

\* a table in which the pass blanked the sub category of a leaf row and in
\* which the order type label of a total row follows blanked labels
C8_Witness ==
  /\ pc = "built"
  /\ \E i \in Positions("leaf") :
        final[i].SubCategory = EmptyStr /\ final[i].of_sub # EmptyStr
  /\ Cardinality(TypesEmitted) >= 2

----------------------------------------------------------------------------
(* C9 *)

Permute(frame, p) == [i \in 1..Len(frame) |-> frame[p[i]]]

Shuffles == Permutations(1..Len(df))

AsSet(frame) == {frame[i] : i \in 1..Len(frame)}

\* the whole pipeline from the classified records to the report
ReportOf(frame) ==
  LET table == build_final_table(SortValues(AsCategorical(GroupBy(frame))))
  IN  Append(table, GrandTotalRow(table))

\* C9: whatever the order of the input records, the aggregation yields the
\* same set of aggregate rows and the pipeline the same report row sequence.
C9_OrderIndependent ==
  /\ pc = "grouped" =>
        \A p \in Shuffles : AsSet(GroupBy(Permute(df, p))) = AsSet(grouped)
  /\ pc = "totalled" =>
        \A p \in Shuffles : ReportOf(Permute(df, p)) = final

\* a file that is not in report order and has two records of one group with
\* different amounts
C9_Witness ==
  /\ pc = "totalled"
  /\ \E i \in 1..Len(df), j \in 1..Len(df) :
        /\ i < j
        /\ Key(df[i]) = Key(df[j])
        /\ df[i].TotalPrice # df[j].TotalPrice
  /\ \E i \in 1..Len(df), j \in 1..Len(df) :
        i < j /\ df[i].OrderType = s_TakeAway /\ df[j].OrderType = s_DineIn
           /\ HasKey(df[j])

----------------------------------------------------------------------------
(* C10 *)

\* C10: in the table build_final_table returns, the rows whose 'Sub Category'
\* is 'Dine-In Total', 'Take-Away Total' or 'Delivery Total' are exactly the
\* primary_type_total rows, one for each order type present: collapsing
\* blanks none of these labels and no leaf or sub_category_total row has one.
C10_TotalLabelsNameTypeTotals ==
  ReportBuilt =>
    /\ {i \in 1..Len(final) : final[i].SubCategory \in totals_to_include}
          = Positions("primary_type_total")
    /\ \A t \in TypesEmitted :
          /\ Cardinality(TypeTotalsOf(t)) = 1
          /\ \A i \in TypeTotalsOf(t) : final[i].SubCategory = t \o s_SpaceTotal

\* a Dine-In record whose channel reference is the text 'Dine-In' and whose
\* table has no class, in a table with a second order type
C10_Witness ==
  /\ pc = "built"
  /\ \E i \in 1..Len(df) :
        /\ df[i].OrderType = s_DineIn
        /\ df[i].SubCategory = EmptyStr
        /\ df[i].TotalPrice = 110
  /\ Cardinality(Positions("primary_type_total")) >= 2

============================================================================
